---- MODULE Spec2Model ----
(***************************************************************************)
(* A model of medication.py: the SystmOnline command line client.  The     *)
(* program is one sequential script; its steps are cut at the points where *)
(* it blocks on the outside world (an HTTP response, the prompt).          *)
(*                                                                         *)
(* Encoding of Python values:                                              *)
(*   - an optional value (None, a missing attribute, a tag that find() did *)
(*     not find) is a sequence of length 0 or 1;                           *)
(*   - a str that the code inspects character by character (the prompt     *)
(*     input, the error text) is a sequence of one-character strings;      *)
(*   - a dict is a function; a form_data value is [isList, v] where v is   *)
(*     the one value (isList = FALSE) or the list of values;               *)
(*   - a parsed page (self.soup) is a record of the tags the code looks    *)
(*     for: spans, forms and table rows, each in document order.           *)
(***************************************************************************)
EXTENDS Integers, Sequences, FiniteSets

VARIABLES
    pc,            \* position of the script
    args,          \* parsed command line flags
    soup,          \* self.soup, the last parsed page (<<>> is None)
    pages,         \* history: every page assigned to self.soup, in order
    posts,         \* history: every POST issued on self.session, in order
    out,           \* history: the messages printed
    calls,         \* history: the methods entered
    extracts,      \* history: the actions extract_form_data was called with
    login_result,  \* the tuple returned by login() (<<>> before the call)
    final_url,     \* response.url of the login response (<<>> before the call)
    request_ok,    \* history: response.ok of every answer to /2/RequestMedication
    post_data,     \* the local post_data of the method that ran last
    medications,   \* the list built by query_medications
    df,            \* the data frame shown by display_medications
    user_input,    \* the line read by input() (<<>> before the prompt)
    selected_ids,  \* the list handed to order_medications
    exit_code,     \* the exit status of the process (-1 while running)
    exc            \* the exception that escaped to the top level, or "none"

vars == <<pc, args, soup, pages, posts, out, calls, extracts, login_result, final_url, request_ok, post_data,
          medications, df, user_input, selected_ids, exit_code, exc>>

-----------------------------------------------------------------------------
(* Bounds of the input domains *)

MaxText == 3
MaxInputs == 3
MaxRows == 3
MaxMeds == 3

-----------------------------------------------------------------------------
(* Generic helpers *)

Range(s) == {s[i] : i \in DOMAIN s}

SeqsUpTo(S, n) == UNION {[1..k -> S] : k \in 0..n}

Tail2(s) == IF Len(s) <= 1 THEN <<>> ELSE SubSeq(s, 2, Len(s))

\* dict(d).update(e)
Update(d, e) == [k \in (DOMAIN d) \cup (DOMAIN e) |-> IF k \in DOMAIN e THEN e[k] ELSE d[k]]

\* tag.get(attr, default)
Get(attr, default) == IF attr = <<>> THEN default ELSE attr[1]

Single(x) == [isList |-> FALSE, v |-> <<x>>]
List(xs) == [isList |-> TRUE, v |-> xs]

-----------------------------------------------------------------------------
(* str.strip() *)

Whitespace == {" "}

RECURSIVE LStrip(_)
LStrip(s) == IF s # <<>> /\ Head(s) \in Whitespace THEN LStrip(Tail(s)) ELSE s

RECURSIVE RStrip(_)
RStrip(s) ==
    IF s # <<>> /\ s[Len(s)] \in Whitespace THEN RStrip(SubSeq(s, 1, Len(s) - 1)) ELSE s

Strip(s) == RStrip(LStrip(s))

-----------------------------------------------------------------------------
(* login: the classification of the login response *)

\* needle in hay, for sequences
Contains(hay, needle) ==
    \E i \in 0..(Len(hay) - Len(needle)) : SubSeq(hay, i + 1, i + Len(needle)) = needle

MainMenu == <<"MainMenu">>

RECURSIVE FindSpan(_, _)
FindSpan(spans, id) ==
    IF spans = <<>> THEN <<>>
    ELSE IF Head(spans).id = id THEN <<Head(spans)>>
    ELSE FindSpan(Tail(spans), id)

UnknownStatus == <<"Login status unknown. Check the response.">>

\* a login that trusts the landing page before it looks for the error element
LoginResultUrlFirst(page, url) ==
    LET error_span == FindSpan(page.spans, "errorText") IN
    IF Contains(url, MainMenu) THEN
        [success |-> TRUE, message |-> <<>>]
    ELSE IF error_span # <<>> THEN
        [success |-> FALSE, message |-> Strip(error_span[1].text)]
    ELSE
        [success |-> FALSE, message |-> UnknownStatus]

LoginResult(page, url) ==
    LET error_span == FindSpan(page.spans, "errorText") IN
    IF error_span # <<>> THEN
        [success |-> FALSE, message |-> Strip(error_span[1].text)]
    ELSE IF Contains(url, MainMenu) THEN
        [success |-> TRUE, message |-> <<>>]
    ELSE
        [success |-> FALSE, message |-> UnknownStatus]

-----------------------------------------------------------------------------
(* extract_form_data *)

RECURSIVE FindForm(_, _)
FindForm(forms, action) ==
    IF forms = <<>> THEN <<>>
    ELSE IF Head(forms).method = "POST" /\ Head(forms).action = action THEN <<Head(forms)>>
    ELSE FindForm(Tail(forms), action)

HiddenInputs(form) == SelectSeq(form.inputs, LAMBDA i : i.type = "HIDDEN")

\* a collection that keeps only the last value of a repeated name
AddFieldOverwrite(data, name, value) ==
    Update(data, [n \in {name} |-> Single(value)])

AddField(data, name, value) ==
    IF name \in DOMAIN data
    THEN [data EXCEPT ![name] = List(Append(@.v, value))]
    ELSE Update(data, [n \in {name} |-> Single(value)])

RECURSIVE CollectFields(_, _)
CollectFields(inputs, data) ==
    IF inputs = <<>> THEN data
    ELSE CollectFields(Tail(inputs),
                       AddField(data, Head(inputs).name, Get(Head(inputs).value, "")))

EmptyDict == [n \in {} |-> Single("")]

ExtractFormData(page, action) ==
    LET form == FindForm(page.forms, action) IN
    IF form = <<>> THEN <<>>
    ELSE <<CollectFields(HiddenInputs(form[1]), EmptyDict)>>

\* Python's truth value of the return value: None and {} are both false
Falsy(d) == d = <<>> \/ DOMAIN d[1] = {}

-----------------------------------------------------------------------------
(* query_medications: the loop over the table rows (lines 101-117).  The    *)
(* last-issued and last-requested columns are display text only and are     *)
(* not part of the record here.                                             *)

Medication(med_id, drug_name, can_order) ==
    [id |-> med_id, name |-> drug_name, can_order |-> can_order]

\* the body of the loop for one row: "skip", "KeyError" or a record to append
ParseRow(row) ==
    LET columns == row.cells
        checkbox == row.checkbox
    IN  IF Len(columns) < 2 THEN [kind |-> "skip"]
        ELSE IF checkbox # <<>> /\ checkbox[1].value = <<>> THEN [kind |-> "KeyError"]
        ELSE LET can_order == IF checkbox # <<>> THEN "Yes" ELSE "No"
                 med_id == IF checkbox # <<>> THEN checkbox[1].value ELSE <<>>
                 drug_name_tag == columns[2].h3
             IN  IF drug_name_tag # <<>>
                 THEN [kind |-> "append",
                       med |-> Medication(med_id, drug_name_tag[1], can_order)]
                 ELSE [kind |-> "skip"]

RECURSIVE ParseLoop(_, _)
ParseLoop(rows, meds) ==
    IF rows = <<>> THEN [exc |-> "none", medications |-> meds]
    ELSE LET r == ParseRow(Head(rows)) IN
         IF r.kind = "KeyError" THEN [exc |-> "KeyError", medications |-> meds]
         ELSE IF r.kind = "append" THEN ParseLoop(Tail(rows), Append(meds, r.med))
         ELSE ParseLoop(Tail(rows), meds)

\* a loop that does not skip the header row
ParseMedicationsAllRows(page) == ParseLoop(page.rows, <<>>)

\* for row in self.soup.find_all("tr")[1:]
ParseMedications(page) == ParseLoop(Tail2(page.rows), <<>>)

-----------------------------------------------------------------------------
(* display_medications: the frame shown in order mode *)

\* a frame that keeps every row
OrderableFrameAll(meds) == meds

\* df[df["Can Be Ordered"] == "Yes"], re-indexed from 1
OrderableFrame(meds) == SelectSeq(meds, LAMBDA m : m.can_order = "Yes")

\* df["ID"].tolist()
IdList(frame) == [i \in DOMAIN frame |-> frame[i].id]

-----------------------------------------------------------------------------
(* prompt_order_medications *)

Digits == {"0", "1", "2", "3"}

DigitVal(c) == CASE c = "0" -> 0 [] c = "1" -> 1 [] c = "2" -> 2 [] c = "3" -> 3

\* str.split(","): always at least one piece
RECURSIVE SplitFrom(_, _, _)
SplitFrom(s, sep, piece) ==
    IF s = <<>> THEN <<piece>>
    ELSE IF Head(s) = sep THEN <<piece>> \o SplitFrom(Tail(s), sep, <<>>)
    ELSE SplitFrom(Tail(s), sep, Append(piece, Head(s)))

Split(s, sep) == SplitFrom(s, sep, <<>>)

AllDigits(s) == s # <<>> /\ \A i \in DOMAIN s : s[i] \in Digits

\* int(x) accepts x: surrounding whitespace, an optional sign, decimal digits
IntAccepts(x) ==
    LET t == Strip(x) IN
    IF t # <<>> /\ Head(t) = "-" THEN AllDigits(Tail(t)) ELSE AllDigits(t)

RECURSIVE Decimal(_)
Decimal(s) == IF s = <<>> THEN 0 ELSE 10 * Decimal(SubSeq(s, 1, Len(s) - 1)) + DigitVal(s[Len(s)])

IntOf(x) ==
    LET t == Strip(x) IN
    IF Head(t) = "-" THEN 0 - Decimal(Tail(t)) ELSE Decimal(t)

\* df.iloc[i] for one position i of a frame of n rows: negative positions count
\* from the end, positions outside -n .. n-1 raise IndexError
IlocInBounds(i, n) == (0 - n) <= i /\ i <= n - 1
IlocRow(i, n) == IF i >= 0 THEN i + 1 ELSE n + i + 1

PromptResult(input, frame) ==
    LET pieces == Split(input, ",")
        n == Len(frame)
    IN  IF \E k \in DOMAIN pieces : ~IntAccepts(pieces[k])
        THEN [exc |-> "none", caught |-> TRUE, ids |-> <<>>]
        ELSE LET selected_indices == [k \in DOMAIN pieces |-> IntOf(pieces[k]) - 1] IN
             IF \E k \in DOMAIN pieces : ~IlocInBounds(selected_indices[k], n)
             THEN [exc |-> "IndexError", caught |-> FALSE, ids |-> <<>>]
             ELSE [exc |-> "none", caught |-> FALSE,
                   ids |-> [k \in DOMAIN pieces |->
                               frame[IlocRow(selected_indices[k], n)].id]]

-----------------------------------------------------------------------------
(* The inputs: what the server may answer and what the user may type.  The  *)
(* script as a whole runs on the small domains; each pure step is also run  *)
(* on its own over a wide domain.                                           *)

Actions == {"Medication", "RequestMedication"}

Page(spans, forms, rows) == [spans |-> spans, forms |-> forms, rows |-> rows]

Input(type, name, value) == [type |-> type, name |-> name, value |-> value]
Cell(h3) == [h3 |-> h3]
Row(cells, checkbox) == [cells |-> cells, checkbox |-> checkbox]

\* table rows
Plain == Cell(<<>>)
Heading == Cell(<<"drug">>)
Checkboxes == {<<>>, <<[value |-> <<>>]>>, <<[value |-> <<"m1">>]>>, <<[value |-> <<"m2">>]>>}
HeaderRow == Row(<<Plain, Plain>>, <<>>)
ScriptRows == {Row(<<Plain, Heading>>, c) : c \in Checkboxes}
ScriptRowSeqs ==
    {<<>>} \cup {<<HeaderRow>> \o r : r \in SeqsUpTo(ScriptRows, MaxMeds)}
WideCells == {<<>>, <<Heading>>, <<Plain, Plain>>, <<Plain, Heading>>, <<Heading, Plain>>,
              <<Plain, Heading, Plain>>}
WideRows == {Row(c, b) : c \in WideCells, b \in Checkboxes}
WideRowSeqs == SeqsUpTo(WideRows, MaxRows)

\* forms
ScriptInputSeqs == {<<>>, <<Input("HIDDEN", "tok", <<"s1">>)>>, <<Input("HIDDEN", "tok", <<"s2">>)>>,
                    <<Input("HIDDEN", "Drug", <<"old">>), Input("TEXT", "q", <<"s1">>)>>}
ScriptForms == [method : {"POST", "GET"}, action : Actions, inputs : ScriptInputSeqs]
ScriptFormSeqs == {<<>>} \cup {<<f>> : f \in ScriptForms}
WideInputs == {Input("HIDDEN", n, v) : n \in {"n1", "n2"}, v \in {<<>>, <<"a">>, <<"b">>}}
                  \cup {Input("TEXT", "n1", <<"a">>)}
WideForms == [method : {"POST", "GET"}, action : Actions, inputs : SeqsUpTo(WideInputs, MaxInputs)]
FirstForms == [method : {"POST", "GET"}, action : Actions,
               inputs : {<<>>, <<Input("HIDDEN", "n1", <<"b">>)>>}]
WideFormSeqs == {<<>>} \cup {<<f>> : f \in WideForms}
                    \cup {<<g, f>> : g \in FirstForms, f \in WideForms}

\* spans and final URLs of the login response
ScriptSpanSeqs == {<<>>, <<[id |-> "errorText", text |-> <<" ", "x", " ">>]>>}
ScriptUrls == {<<"2", "MainMenu">>, <<"2", "Login">>}
WideSpans == [id : {"errorText", "info"}, text : SeqsUpTo({" ", "x"}, MaxText)]
FirstSpans == [id : {"errorText", "info"}, text : {<<"y">>}]
WideSpanSeqs == {<<>>} \cup {<<s>> : s \in WideSpans}
                    \cup {<<g, s>> : g \in FirstSpans, s \in WideSpans}
WideUrls == SeqsUpTo({"2", "Login", "MainMenu"}, 2)

ScriptLoginResponses ==
    [page : {Page(s, f, <<>>) : s \in ScriptSpanSeqs, f \in ScriptFormSeqs}, url : ScriptUrls]
WideLoginResponses ==
    [page : {Page(s, <<>>, <<>>) : s \in WideSpanSeqs}, url : WideUrls]
ScriptMedicationPages == {Page(<<>>, f, r) : f \in ScriptFormSeqs, r \in ScriptRowSeqs}
WideMedicationPages == {Page(<<>>, <<>>, r) : r \in WideRowSeqs}
ScriptRequestPages ==
    {Page(<<>>, f, <<>>) :
        f \in {g \in ScriptFormSeqs : g = <<>> \/ g[1].action = "RequestMedication"
                                                \/ g[1].inputs = <<>>}}
WideFormPages == {Page(<<>>, f, <<>>) : f \in WideFormSeqs}

\* lines typed at the prompt
ScriptLines == {<<>>, <<"x">>, <<"1">>, <<"2">>, <<"3">>, <<"0">>, <<"-", "1">>,
                <<"1", ",", "2">>, <<"2", ",", " ", "1">>, <<"1", ",">>, <<"1", ",", "x">>,
                <<"x", ",", "3">>, <<"0", "1">>, <<" ", "2", " ">>}

-----------------------------------------------------------------------------
(* State *)

Flags == [medications : BOOLEAN, order_medications : BOOLEAN, all : BOOLEAN]

Fresh(p, a, s) ==
    /\ pc = p
    /\ args = a
    /\ soup = s
    /\ pages = s
    /\ posts = <<>>
    /\ out = <<>>
    /\ calls = <<>>
    /\ extracts = <<>>
    /\ login_result = <<>>
    /\ final_url = <<>>
    /\ request_ok = <<>>
    /\ post_data = <<>>
    /\ medications = <<>>
    /\ df = <<>>
    /\ user_input = <<>>
    /\ selected_ids = <<>>
    /\ exit_code = -1
    /\ exc = "none"

\* __main__ before the first statement
Init == \E a \in Flags : Fresh("main", a, <<>>)

Post(url, data) == [url |-> url, data |-> data]

\* the script ends: by sys.exit(code), by falling off its end (0), or by an
\* exception that nothing catches (the interpreter exits with 1)
Exit(code) == pc' = "done" /\ exit_code' = code /\ exc' = "none"
Raise(e) == pc' = "done" /\ exit_code' = 1 /\ exc' = e

Say(msg) == out' = Append(out, msg)

-----------------------------------------------------------------------------
(* __main__, lines 220-234 *)

Usage == <<"usage">>

Main ==
    /\ pc = "main"
    /\ IF ~args.medications /\ ~args.order_medications
       THEN Say(Usage) /\ Exit(1)
       ELSE pc' = "login" /\ UNCHANGED <<out, exit_code, exc>>
    /\ UNCHANGED <<args, soup, pages, posts, calls, extracts, login_result, final_url, request_ok, post_data,
                   medications, df, user_input, selected_ids>>

LoginPayload == [n \in {"Username", "Password", "Login"} |->
                    IF n = "Login" THEN Single("") ELSE Single(n)]

\* login() and the test of its result in __main__
LoginOn(responses) ==
    /\ pc = "login"
    /\ \E response \in responses :
         LET result == LoginResult(response.page, response.url) IN
         /\ posts' = Append(posts, Post("/2/Login", LoginPayload))
         /\ soup' = <<response.page>>
         /\ pages' = Append(pages, response.page)
         /\ login_result' = <<result>>
         /\ final_url' = <<response.url>>
         /\ IF ~result.success
            THEN Say(<<"Error: ">> \o result.message) /\ Exit(1)
            ELSE pc' = "query" /\ UNCHANGED <<out, exit_code, exc>>
    /\ calls' = Append(calls, "login")
    /\ UNCHANGED <<args, extracts, request_ok, post_data, medications, df, user_input,
                   selected_ids>>

Login == LoginOn(ScriptLoginResponses)

-----------------------------------------------------------------------------
(* query_medications with the display_medications it ends in, lines 85-154, *)
(* up to the prompt or the call of order_medications                        *)

NoData == <<"Error: Unable to retrieve medication data.">>
NoneFound == <<"No medications found.">>
NoneOrderable == <<"No medications available for ordering.">>
Table == <<"table">>

\* display_medications(medications, order_medications, order_all)
Display(meds) ==
    IF meds = <<>> THEN
        /\ Say(NoneFound) /\ Exit(0)
        /\ UNCHANGED <<df, selected_ids>>
        /\ calls' = calls \o <<"query_medications", "display_medications">>
    ELSE IF args.order_medications THEN
        LET frame == OrderableFrame(meds) IN
        /\ df' = frame
        /\ IF frame = <<>> THEN
               /\ Say(NoneOrderable) /\ Exit(0)
               /\ UNCHANGED selected_ids
               /\ calls' = calls \o <<"query_medications", "display_medications">>
           ELSE IF args.all THEN
               /\ Say(Table)
               /\ selected_ids' = IdList(frame)
               /\ pc' = "order"
               /\ UNCHANGED <<exit_code, exc>>
               /\ calls' = calls \o <<"query_medications", "display_medications">>
           ELSE
               /\ Say(Table)
               /\ pc' = "prompt"
               /\ UNCHANGED <<selected_ids, exit_code, exc>>
               /\ calls' = calls \o <<"query_medications", "display_medications",
                                       "prompt_order_medications">>
    ELSE
        /\ df' = meds
        /\ Say(Table) /\ Exit(0)
        /\ UNCHANGED selected_ids
        /\ calls' = calls \o <<"query_medications", "display_medications">>

QueryMedicationsOn(responses) ==
    /\ pc = "query"
    /\ extracts' = Append(extracts, "Medication")
    /\ LET data == ExtractFormData(soup[1], "Medication") IN
       /\ post_data' = data
       /\ IF Falsy(data) THEN
              /\ Say(NoData) /\ Exit(0)
              /\ calls' = Append(calls, "query_medications")
              /\ UNCHANGED <<soup, pages, posts, medications, df, selected_ids>>
          ELSE \E page \in responses :
              LET parsed == ParseMedications(page) IN
              /\ posts' = Append(posts, Post("/2/Medication", data[1]))
              /\ soup' = <<page>>
              /\ pages' = Append(pages, page)
              /\ IF parsed.exc # "none" THEN
                     /\ Raise(parsed.exc)
                     /\ calls' = Append(calls, "query_medications")
                     /\ UNCHANGED <<out, medications, df, selected_ids>>
                 ELSE
                     /\ medications' = parsed.medications
                     /\ Display(parsed.medications)
    /\ UNCHANGED <<args, login_result, final_url, request_ok, user_input>>

QueryMedications == QueryMedicationsOn(ScriptMedicationPages)

-----------------------------------------------------------------------------
(* prompt_order_medications from the input() on, lines 164-171, and the    *)
(* return into display_medications                                          *)

Ordered == <<"Ordered medications:">>
Invalid == <<"Invalid input. Please enter numbers separated by commas.">>

PromptOrderMedicationsOn(lines) ==
    /\ pc = "prompt"
    /\ \E line \in lines :
         LET r == PromptResult(line, df) IN
         /\ user_input' = <<line>>
         /\ IF r.exc # "none" THEN
                /\ Raise(r.exc)
                /\ UNCHANGED <<out, selected_ids>>
            ELSE
                /\ Say(IF r.caught THEN Invalid ELSE Ordered)
                /\ selected_ids' = r.ids
                /\ pc' = "order"
                /\ UNCHANGED <<exit_code, exc>>
    /\ UNCHANGED <<args, soup, pages, posts, calls, extracts, login_result, final_url, request_ok, post_data,
                   medications, df>>

PromptOrderMedications == PromptOrderMedicationsOn(ScriptLines)

-----------------------------------------------------------------------------
(* order_medications, lines 173-202 *)

NoneSelected == <<"No medications selected for ordering.">>
NoForm == <<"Error: Unable to retrieve request form.">>
Submitted == <<"Medication request submitted successfully.">>
NotSubmitted == <<"Error submitting medication request.">>

\* line 189: post_data.update({...})
RequestPayload(data, med_ids) ==
    Update(data, [n \in {"Drug", "MedRequestType"} |->
                     IF n = "Drug" THEN List([i \in DOMAIN med_ids |-> Get(med_ids[i], "None")])
                     ELSE Single("Request existing medication")])

\* a confirmation that sends the first payload again
ConfirmDataStale(page, first) == <<first>>

\* line 194: post_data is assigned anew from the page of the first response
ConfirmData(page, first) == ExtractFormData(page, "RequestMedication")

\* an order that does not test for the empty selection
NothingSelectedNever(med_ids) == FALSE

\* line 179: if not med_ids
NothingSelected(med_ids) == med_ids = <<>>

OrderMedications ==
    /\ pc = "order"
    /\ calls' = Append(calls, "order_medications")
    /\ IF NothingSelected(selected_ids) THEN
           /\ Say(NoneSelected) /\ Exit(0)
           /\ UNCHANGED <<soup, pages, posts, extracts, post_data, request_ok>>
       ELSE LET data == ExtractFormData(soup[1], "RequestMedication") IN
           IF Falsy(data) THEN
               /\ Say(NoForm) /\ Exit(0)
               /\ extracts' = Append(extracts, "RequestMedication")
               /\ post_data' = data
               /\ UNCHANGED <<soup, pages, posts, request_ok>>
           ELSE \E page \in ScriptRequestPages, ok1 \in BOOLEAN :
               LET request == RequestPayload(data[1], selected_ids)
                   confirm == ConfirmData(page, request)
               IN  /\ soup' = <<page>>
                   /\ pages' = Append(pages, page)
                   /\ extracts' = extracts \o <<"RequestMedication", "RequestMedication">>
                   /\ post_data' = confirm
                   /\ IF Falsy(confirm) THEN
                          /\ posts' = Append(posts, Post("/2/RequestMedication", request))
                          /\ request_ok' = Append(request_ok, ok1)
                          /\ Say(NoForm) /\ Exit(0)
                      ELSE \E ok \in BOOLEAN :
                          /\ posts' = posts \o <<Post("/2/RequestMedication", request),
                                                 Post("/2/RequestMedication", confirm[1])>>
                          /\ request_ok' = request_ok \o <<ok1, ok>>
                          /\ Say(IF ok THEN Submitted ELSE NotSubmitted) /\ Exit(0)
    /\ UNCHANGED <<args, login_result, final_url, medications, df, user_input, selected_ids>>

-----------------------------------------------------------------------------

Next == Main \/ Login \/ QueryMedications \/ PromptOrderMedications \/ OrderMedications

Spec == Init /\ [][Next]_vars

-----------------------------------------------------------------------------
(* The pure steps on their own, over the wide domains *)

ListOnly == [medications |-> TRUE, order_medications |-> FALSE, all |-> FALSE]
OrderOnly == [medications |-> FALSE, order_medications |-> TRUE, all |-> FALSE]

\* login() on any response
LoginWide == LoginOn(WideLoginResponses)
InitLogin == Fresh("login", ListOnly, <<>>)
SpecLogin == InitLogin /\ [][LoginWide]_vars

\* extract_form_data(action) on any page
ExtractStep ==
    /\ pc = "extract"
    /\ \E action \in Actions :
         /\ extracts' = Append(extracts, action)
         /\ post_data' = ExtractFormData(soup[1], action)
    /\ pc' = "extracted"
    /\ UNCHANGED <<args, soup, pages, posts, out, calls, login_result, final_url, request_ok,
                   medications,
                   df, user_input, selected_ids, exit_code, exc>>
InitExtract == \E page \in WideFormPages : Fresh("extract", ListOnly, <<page>>)
SpecExtract == InitExtract /\ [][ExtractStep]_vars

\* query_medications on any table, from a page that holds the Medication form
MenuPage ==
    Page(<<>>, <<[method |-> "POST", action |-> "Medication",
                  inputs |-> <<Input("HIDDEN", "tok", <<"s1">>)>>]>>, <<>>)
QueryWide == QueryMedicationsOn(WideMedicationPages)
InitParse == \E a \in {ListOnly, OrderOnly} : Fresh("query", a, <<MenuPage>>)
SpecParse == InitParse /\ [][QueryWide]_vars

-----------------------------------------------------------------------------
(* Properties *)

Called(f) == f \in Range(calls)
Last(s) == s[Len(s)]

\* the place of i among the members of the index set S, counted from 1
Rank(S, i) == Cardinality({j \in S : j <= i})

\* m is text without its leading and trailing whitespace
IsTrimOf(m, text) ==
    \E a \in 0..Len(text) :
        /\ a + Len(m) <= Len(text)
        /\ m = SubSeq(text, a + 1, a + Len(m))
        /\ \A i \in 1..a : text[i] \in Whitespace
        /\ \A i \in (a + Len(m) + 1)..Len(text) : text[i] \in Whitespace
        /\ m = <<>> \/ (m[1] \notin Whitespace /\ m[Len(m)] \notin Whitespace)

ErrorSpans(page) == {i \in DOMAIN page.spans : page.spans[i].id = "errorText"}
FirstOf(S) == CHOOSE i \in S : \A j \in S : i <= j
HasMainMenu(url) == \E i \in DOMAIN url : url[i] = "MainMenu"

\* C1: login() classifies every response three ways.  With an error span on
\* the page the result is (False, trimmed text of that span) whatever the final
\* URL is; otherwise with MainMenu in the final URL it is (True, ""); otherwise
\* it is (False, "Login status unknown. Check the response.").
C1_LoginClassification ==
    login_result # <<>> =>
        LET page == Last(pages)
            url == final_url[1]
            r == login_result[1]
        IN  IF ErrorSpans(page) # {} THEN
                /\ r.success = FALSE
                /\ IsTrimOf(r.message, page.spans[FirstOf(ErrorSpans(page))].text)
            ELSE IF HasMainMenu(url) THEN
                r = [success |-> TRUE, message |-> <<>>]
            ELSE
                r = [success |-> FALSE, message |-> UnknownStatus]

\* an error span with blanks around its text, on a response that landed on MainMenu
C1_Witness ==
    /\ login_result # <<>>
    /\ ErrorSpans(Last(pages)) # {}
    /\ HasMainMenu(final_url[1])
    /\ login_result[1].message = <<"x">>
    /\ Last(pages).spans[FirstOf(ErrorSpans(Last(pages)))].text = <<" ", "x", " ">>
    /\ login_result[1].success = FALSE
    /\ pc = "done" /\ exit_code = 1

Matching(page, action) ==
    {i \in DOMAIN page.forms : page.forms[i].method = "POST" /\ page.forms[i].action = action}
Present(page, action) == Matching(page, action) # {}
Hidden(form) == {i \in DOMAIN form.inputs : form.inputs[i].type = "HIDDEN"}
ValueOf(input) == IF input.value = <<>> THEN "" ELSE input.value[1]

\* C2: extract_form_data(action) returns None when the page has no POST form
\* with that action; otherwise the result holds exactly the names of the form's
\* hidden inputs, a name that occurs once maps to its value, and a name that
\* occurs k >= 2 times maps to the list of its k values in document order.
C2_ExtractFormData ==
    pc = "extracted" =>
        LET page == soup[1]
            action == Last(extracts)
        IN  IF ~Present(page, action) THEN post_data = <<>>
            ELSE /\ post_data # <<>>
                 /\ LET form == page.forms[FirstOf(Matching(page, action))]
                        d == post_data[1]
                    IN  /\ DOMAIN d = {form.inputs[i].name : i \in Hidden(form)}
                        /\ \A n \in DOMAIN d :
                             LET occ == {i \in Hidden(form) : form.inputs[i].name = n}
                                 k == Cardinality(occ)
                             IN  /\ k = 1 =>
                                       /\ ~d[n].isList
                                       /\ d[n].v = <<ValueOf(form.inputs[FirstOf(occ)])>>
                                 /\ k >= 2 =>
                                       /\ d[n].isList
                                       /\ Len(d[n].v) = k
                                       /\ \A i \in occ :
                                            d[n].v[Rank(occ, i)] = ValueOf(form.inputs[i])

\* a name that occurs three times with differing values, in the second form of
\* a page whose first form has the action but not the method
C2_Witness ==
    /\ pc = "extracted"
    /\ post_data # <<>>
    /\ Len(soup[1].forms) = 2
    /\ soup[1].forms[1].action = Last(extracts)
    /\ \E n \in DOMAIN post_data[1] :
         /\ post_data[1][n].isList
         /\ Len(post_data[1][n].v) = 3
         /\ post_data[1][n].v[1] # post_data[1][n].v[2]
         /\ post_data[1][n].v[2] # post_data[1][n].v[3]

\* the rows of the Medication response that are medication entries
TablePage == pages[2]
Entries(rows) ==
    {i \in 2..Len(rows) : Len(rows[i].cells) >= 2 /\ rows[i].cells[2].h3 # <<>>}

PostsTo(url) == {k \in DOMAIN posts : posts[k].url = url}
ActionOf(url) == IF url = "/2/Medication" THEN "Medication" ELSE "RequestMedication"
Selection == {"Drug", "MedRequestType"}

\* data is the hidden state h, as it is or with the selection fields laid over it
Carries(data, h) ==
    \/ data = h
    \/ /\ DOMAIN data = DOMAIN h \cup Selection
       /\ \A n \in DOMAIN h \ Selection : data[n] = h[n]

\* C3: every POST to /2/Medication and to /2/RequestMedication carries the
\* hidden state of the page of the most recent response: the k-th POST of a run
\* is sent after k-1 responses, and its hidden state is that of page k-1.
C3_FreshHiddenState ==
    \A k \in DOMAIN posts :
        posts[k].url \in {"/2/Medication", "/2/RequestMedication"} =>
            /\ k >= 2
            /\ k - 1 \in DOMAIN pages
            /\ LET h == ExtractFormData(pages[k - 1], ActionOf(posts[k].url)) IN
               h # <<>> /\ Carries(posts[k].data, h[1])

\* a run with both RequestMedication POSTs, where the page of the first response
\* holds another token than the page the request was built from
C3_Witness ==
    /\ pc = "done"
    /\ Len(posts) = 4
    /\ "tok" \in DOMAIN posts[3].data /\ "tok" \in DOMAIN posts[4].data
    /\ posts[3].data["tok"] = Single("s1")
    /\ posts[4].data["tok"] = Single("s2")

NonIntegerLines == {<<>>, <<"x">>, <<"1", ",">>, <<"1", ",", "x">>, <<"x", ",", "3">>}

\* C5: order_medications with an empty selection extracts no form, posts
\* nothing, leaves the page as it is and prints "No medications selected for
\* ordering."; a line at the prompt that is not a list of integers gives the
\* empty selection.
C5_EmptySelection ==
    [][/\ (pc = "order" /\ selected_ids = <<>>) =>
            /\ posts' = posts /\ extracts' = extracts /\ request_ok' = request_ok
            /\ soup' = soup /\ pages' = pages
            /\ out' = Append(out, NoneSelected)
            /\ pc' = "done" /\ exit_code' = 0 /\ exc' = "none"
       /\ (pc = "prompt" /\ user_input' # <<>> /\ user_input'[1] \in NonIntegerLines) =>
            /\ selected_ids' = <<>>
            /\ pc' = "order" /\ exc' = "none"
            /\ out' = Append(out, Invalid)
            /\ posts' = posts /\ extracts' = extracts /\ soup' = soup]_vars

\* a run that ended in order_medications after the line "1,x" at the prompt
C5_Witness ==
    /\ pc = "done"
    /\ user_input = <<<<"1", ",", "x">>>>
    /\ Last(calls) = "order_medications"
    /\ selected_ids = <<>>
    /\ Last(out) = NoneSelected
    /\ Len(posts) = 2
    /\ Present(soup[1], "RequestMedication")

Orderable(meds) == {i \in DOMAIN meds : meds[i].can_order = "Yes"}

\* C6: with order mode and "all", whenever the scraped list has an orderable
\* entry, order_medications is given exactly the ids of the orderable entries in
\* scraped order, and the prompt is never shown.
C6_OrderAll ==
    (/\ args.order_medications /\ args.all
     /\ Called("display_medications")
     /\ Orderable(medications) # {}) =>
        /\ pc = "order" \/ Called("order_medications")
        /\ Len(selected_ids) = Cardinality(Orderable(medications))
        /\ \A i \in Orderable(medications) :
             selected_ids[Rank(Orderable(medications), i)] = medications[i].id
        /\ ~Called("prompt_order_medications")
        /\ user_input = <<>>

\* three rows scraped, the second not orderable, both others ordered
C6_Witness ==
    /\ args.order_medications /\ args.all
    /\ Called("order_medications")
    /\ Len(medications) = 3
    /\ medications[2].can_order = "No"
    /\ selected_ids = <<<<"m2">>, <<"m1">>>>
    /\ Len(posts) = 4
    /\ posts[3].data["Drug"] = List(<<"m2", "m1">>)

HiddenState(page, action) ==
    LET form == page.forms[FirstOf(Matching(page, action))]
        names == {form.inputs[i].name : i \in Hidden(form)}
    IN  [n \in names |->
            LET occ == {i \in Hidden(form) : form.inputs[i].name = n} IN
            IF Cardinality(occ) = 1 THEN Single(ValueOf(form.inputs[FirstOf(occ)]))
            ELSE List([j \in 1..Cardinality(occ) |->
                          ValueOf(form.inputs[CHOOSE i \in occ : Rank(occ, i) = j])])]

\* C4: order_medications with a selection, when both extractions find their
\* form, issues exactly two POSTs to /2/RequestMedication: the first with the
\* hidden state of the current page merged with Drug and MedRequestType, the
\* second with the hidden state of the first response and nothing else; it
\* reports success exactly when the second response is OK.
C4_TwoPhaseOrder ==
    (/\ pc = "done" /\ exc = "none"
     /\ Called("order_medications") /\ selected_ids # <<>>
     /\ Len(pages) = 3
     /\ Present(pages[2], "RequestMedication")
     /\ Present(pages[3], "RequestMedication")) =>
        /\ PostsTo("/2/RequestMedication") = {3, 4}
        /\ Len(posts) = 4 /\ Len(request_ok) = 2
        /\ LET h == HiddenState(pages[2], "RequestMedication") IN
           posts[3].data =
               [n \in DOMAIN h \cup Selection |->
                   IF n = "Drug" THEN List([i \in DOMAIN selected_ids |-> selected_ids[i][1]])
                   ELSE IF n = "MedRequestType" THEN Single("Request existing medication")
                   ELSE h[n]]
        /\ posts[4].data = HiddenState(pages[3], "RequestMedication")
        /\ (Last(out) = Submitted) <=> request_ok[2]
        /\ Last(out) \in {Submitted, NotSubmitted}

\* C8: the process ends with a non-zero exit code only when no mode was given
\* (and then nothing was requested) or when the login failed (and then nothing
\* but the login was requested); no exception escapes.
C8_ExitCodes ==
    pc = "done" =>
        /\ exc = "none"
        /\ exit_code # 0 =>
             \/ ~args.medications /\ ~args.order_medications /\ posts = <<>>
             \/ /\ login_result # <<>> /\ ~login_result[1].success
                /\ PostsTo("/2/Medication") = {} /\ PostsTo("/2/RequestMedication") = {}

\* C9: query_medications and order_medications give up before a submission
\* exactly when the form is absent from the current page; with the form on the
\* page, even one without hidden inputs, the submission is made.
C9_AbortOnlyWhenFormAbsent ==
    /\ Called("query_medications") =>
          (PostsTo("/2/Medication") = {} <=> ~Present(pages[1], "Medication"))
    /\ (Called("order_medications") /\ selected_ids # <<>>) =>
          /\ PostsTo("/2/RequestMedication") = {} <=> ~Present(pages[2], "RequestMedication")
          /\ Len(pages) = 3 =>
               (Cardinality(PostsTo("/2/RequestMedication")) < 2
                    <=> ~Present(pages[3], "RequestMedication"))

\* the lines of ScriptLines that are lists of integers, and the integers they list
Entered(line) ==
    CASE line = <<"1">> -> <<1>>
      [] line = <<"2">> -> <<2>>
      [] line = <<"3">> -> <<3>>
      [] line = <<"0">> -> <<0>>
      [] line = <<"-", "1">> -> <<-1>>
      [] line = <<"1", ",", "2">> -> <<1, 2>>
      [] line = <<"2", ",", " ", "1">> -> <<2, 1>>
      [] line = <<"0", "1">> -> <<1>>
      [] line = <<" ", "2", " ">> -> <<2>>
IntegerLines == ScriptLines \ NonIntegerLines

\* C10: in order mode without "all" the table shown holds the orderable
\* medications only, numbered 1..n, and for a list of integers typed at the
\* prompt the ids handed on are those of the rows shown under these numbers: a
\* number outside 1..n selects nothing.
C10_PromptSelection ==
    (/\ args.order_medications /\ ~args.all
     /\ user_input # <<>> /\ user_input[1] \in IntegerLines
     /\ exc = "none") =>
        /\ Len(df) = Cardinality(Orderable(medications))
        /\ \A i \in Orderable(medications) : df[Rank(Orderable(medications), i)] = medications[i]
        /\ LET picked == SelectSeq(Entered(user_input[1]), LAMBDA e : e \in 1..Len(df)) IN
           selected_ids = [k \in DOMAIN picked |-> df[picked[k]].id]

====
